---- MODULE Spec2Model ----
(***************************************************************************)
(* A model of truststore.py: the Truststore context (construction and the  *)
(* two wrap entry points), the post-handshake verification step, the       *)
(* Linux/BSD CA bundle discovery and the macOS evaluator with its native   *)
(* CoreFoundation / Security handles.                                      *)
(*                                                                         *)
(* The TLS engine (Python's ssl module), the filesystem and the native     *)
(* libraries are the environment: what they return is drawn from small     *)
(* sets at the step that calls them.                                       *)
(***************************************************************************)
EXTENDS Integers, Sequences, FiniteSets, TLC

\* ------------------------------------------------------------------ bounds

\* The longest peer certificate chain.
MaxChain == 2
\* How many candidate paths exist on the filesystem at once.
MaxExisting == 2
\* How many native construction calls of one evaluation may return NULL.
MaxNullReturns == 1

\* ---------------------------------------------------------- Linux/BSD paths

\* truststore.py:404-418, in list order, duplicates included.
_CA_FILES ==
  << "/etc/ssl/certs/ca-certificates.crt",
     "/etc/pki/tls/certs/ca-bundle.crt",
     "/etc/ssl/ca-bundle.pem",
     "/etc/pki/tls/cacert.pem",
     "/etc/pki/ca-trust/extracted/pem/tls-ca-bundle.pem",
     "/etc/ssl/cert.pem",
     "/usr/local/etc/ssl/cert.pem",
     "/etc/ssl/cert.pem",
     "/usr/local/share/certs/ca-root-nss.crt",
     "/etc/openssl/certs/ca-certificates.crt",
     "/etc/certs/ca-certificates.crt",
     "/etc/ssl/certs/ca-certificates.crt",
     "/etc/ssl/cacert.pem" >>

\* truststore.py:420-427, in list order.
_CA_DIRS ==
  << "/etc/ssl/certs",
     "/etc/pki/tls/certs",
     "/system/etc/security/cacerts",
     "/usr/local/share/certs",
     "/etc/openssl/certs",
     "/etc/certs/CA" >>

Range(s) == { s[k] : k \in 1..Len(s) }

Paths == Range(_CA_FILES) \cup Range(_CA_DIRS)

\* What a path is on the filesystem: nothing, a PEM bundle the engine can
\* load, a regular file the engine cannot load, or a directory.
PathKinds == {"none", "file", "badfile", "dir"}

\* os.path.isfile / os.path.isdir.
IsFile(f, p) == f[p] \in {"file", "badfile"}
IsDir(f, p) == f[p] = "dir"

\* The filesystems with at most MaxExisting candidate paths present.
FsStates ==
  UNION { { [p \in Paths |-> IF p \in S THEN k[p] ELSE "none"] :
              k \in [S -> PathKinds \ {"none"}] } :
          S \in { T \in SUBSET Paths : Cardinality(T) <= MaxExisting } }

EmptyFs == [p \in Paths |-> "none"]

\* ------------------------------------------------------------------- state

VARIABLES
  platform,   \* platform.system(): "Darwin" or "Linux"
  fs,         \* the candidate paths on the filesystem
  ctx,        \* the Truststore object's SSLContext, once constructed
  loads,      \* the load_verify_locations calls made on ctx, in order
  pc,         \* where the call in progress stands ("idle": none)
  arg,        \* _verify_peercerts_impl's arguments: cert_chain, server_hostname
  loc,        \* _verify_peercerts_impl's local variables
  calls,      \* the native calls of the evaluation so far, in order
  faults,     \* how many construction calls returned NULL so far
  exc,        \* the exception in flight ("none": none)
  ret,        \* how the last evaluator call ended
  py313,      \* whether ssl.SSLObject has get_unverified_chain (Python 3.13 on)
  call,       \* the wrap call in progress: its entry point and server_hostname
  sess,       \* the TLS session object of that call
  engine,     \* that session as the engine's wrap call returned it
  out,        \* how the last wrap call ended
  obs,        \* what _verify_peercerts did to the session
  cur,        \* the thread that is running; the variables above from pc to
              \* ret and from call to obs are its call's frame
  parked      \* the frames of the calls of the threads that are not running

ctxvars == <<platform, fs, ctx, loads>>
evalvars == <<pc, arg, loc, calls, faults, exc, ret>>
evalvars_but_pc == <<arg, loc, calls, faults, exc, ret>>
wrapvars == <<py313, call, sess, engine, out, obs>>
schedvars == <<cur, parked>>
vars == <<platform, fs, ctx, loads, pc, arg, loc, calls, faults, exc, ret,
          py313, call, sess, engine, out, obs, cur, parked>>

Platforms == {"Darwin", "Linux"}

NoCtx == [made |-> FALSE, raised |-> "none",
          check_hostname |-> TRUE, verify_mode |-> "CERT_REQUIRED"]

\* --------------------------------------------------------- native handles

\* A native object is named by the call that made it: its kind, its index
\* in that call, and the thread whose call it is.
H(kind, k) == <<kind, k, cur>>
Null == <<"NULL", 0, 0>>

\* One native call: the function, its handle arguments, and the handle it
\* returned (or wrote through its out-parameter); Null when it made none.
Call(f, args, made) == [f |-> f, args |-> args, made |-> made]

\* The calls that hand the caller a reference it must release.
CreateCalls ==
  {"CFStringCreateWithCString", "SecPolicyCreateSSL", "CFArrayCreateMutable",
   "CFDataCreate", "SecCertificateCreateWithData",
   "SecTrustCreateWithCertificates", "SecTrustEvaluateWithError",
   "CFErrorCopyDescription"}

\* The handles the log's construction calls handed out.
Acquired(log) ==
  { log[k].made : k \in { j \in 1..Len(log) :
                            log[j].f \in CreateCalls /\ log[j].made # Null } }

\* How often the log passes handle h to CFRelease.
Releases(log, h) ==
  Cardinality({ k \in 1..Len(log) : log[k].f = "CFRelease" /\ log[k].args = <<h>> })

\* CoreFoundation.CFRelease(h), guarded as the code guards it: "if h:".
ReleaseIf(h) == IF h # Null THEN << Call("CFRelease", <<h>>, Null) >> ELSE <<>>

B(b) == IF b THEN 1 ELSE 0

\* ----------------------------------------------------------------- inputs

NoHost == "None"
\* A host name str.encode("ascii") refuses.
NonAsciiHost == "non-ascii.example"
HostNames == {"localhost", "example.com"}
Hosts == HostNames \cup {NoHost, NonAsciiHost}

\* A certificate object of the engine is known here by the name it was
\* issued for; cert.public_bytes(ENCODING_DER) gives its DER bytes.
Certificates == [subject : HostNames]
PublicBytes(c) == <<"DER", c.subject>>
DerSubject(d) == d[2]

\* The engine's chains, leaf first, and the DER chains the evaluator is given.
CertChains == UNION { [1..n -> Certificates] : n \in 0..MaxChain }
Chains == UNION { [1..n -> { PublicBytes(c) : c \in Certificates }] : n \in 0..MaxChain }

\* What SecTrustEvaluateWithError's return value can read as: 1, 0, or a value
\* outside the two.
TrustResults == {-1, 0, 1, 2}

\* CFErrorGetCode values: errSecNotTrusted, errSecHostNameMismatch.
ErrorCodes == {-67843, -67602}

\* The size of the buffer _cf_string_ref_to_str copies into.
BufferSize == 1024

\* Byte lengths of a native error description.
DescLens == {0, 17, BufferSize - 1, BufferSize}

NoMessage == [text |-> "none", len |-> 0]
NativeMessage(n) == [text |-> "native", len |-> n]

\* ------------------------------------------------ Linux _configure_context

\* ctx.load_verify_locations(cafile=...): the engine refuses a file that
\* holds no certificate it can parse.
LoadRaises(f, c) == c.kind = "cafile" /\ f[c.path] = "badfile"

\* The for loop over _CA_FILES from index k: the calls made and whether the
\* loop ended by break (its else clause is then skipped).
RECURSIVE FileLoop(_, _)
FileLoop(f, k) ==
  IF k > Len(_CA_FILES) THEN [calls |-> <<>>, broke |-> FALSE]
  ELSE IF IsFile(f, _CA_FILES[k])
       THEN [calls |-> << [kind |-> "cafile", path |-> _CA_FILES[k]] >>,
             broke |-> TRUE]
       ELSE FileLoop(f, k + 1)

\* The for loop over _CA_DIRS from index k: it has no break.
RECURSIVE DirLoop(_, _)
DirLoop(f, k) ==
  IF k > Len(_CA_DIRS) THEN <<>>
  ELSE (IF IsDir(f, _CA_DIRS[k])
        THEN << [kind |-> "capath", path |-> _CA_DIRS[k]] >>
        ELSE <<>>) \o DirLoop(f, k + 1)

\* ConfigureCalls falling back to the first candidate directory whether or
\* not it exists.
ConfigureCallsFallback(f) ==
  LET files == FileLoop(f, 1)
      dirs == DirLoop(f, 1)
  IN IF files.broke THEN files.calls
     ELSE IF dirs # <<>> THEN dirs
          ELSE << [kind |-> "capath", path |-> _CA_DIRS[1]] >>

\* _configure_context on Linux/BSD: the load_verify_locations calls it
\* attempts, in order.
ConfigureCalls(f) ==
  LET files == FileLoop(f, 1)
  IN IF files.broke THEN files.calls ELSE DirLoop(f, 1)

\* The calls up to and including the first that raises.
RECURSIVE UpToRaise(_, _)
UpToRaise(f, cs) ==
  IF cs = <<>> THEN <<>>
  ELSE IF LoadRaises(f, Head(cs)) THEN << Head(cs) >>
       ELSE << Head(cs) >> \o UpToRaise(f, Tail(cs))

\* Truststore.__init__: ssl.create_default_context(), then the platform's
\* _configure_context.
TruststoreInit ==
  /\ ~ctx.made /\ ctx.raised = "none"
  /\ IF platform = "Darwin"
     THEN /\ ctx' = [made |-> TRUE, raised |-> "none",
                     check_hostname |-> FALSE, verify_mode |-> "CERT_NONE"]
          /\ loads' = <<>>
     ELSE LET made == UpToRaise(fs, ConfigureCalls(fs))
              failed == made # <<>> /\ LoadRaises(fs, made[Len(made)])
          IN /\ loads' = made
             /\ ctx' = [NoCtx EXCEPT !.made = ~failed,
                                     !.raised = IF failed THEN "SSLError" ELSE "none"]
  /\ UNCHANGED <<platform, fs>>
  /\ UNCHANGED <<evalvars, wrapvars, schedvars>>

\* ---------------------------------------------------------- wrap calls

AbsentChain == [present |-> FALSE, certs |-> <<>>]
PeerChain(c) == [present |-> TRUE, certs |-> c]

NoCall == [entry |-> "none", h |-> NoHost]
NoSess == [kind |-> "none", connected |-> FALSE, handshake |-> FALSE,
           open |-> FALSE, chain |-> AbsentChain]
NoOut == [kind |-> "none", exc |-> "none", session |-> NoSess]
NoObs == [chain_read |-> FALSE, handshake_at_read |-> FALSE,
          evaluated |-> FALSE]

\* No wrap call is in progress and none has been made.
WrapIdle ==
  /\ call = NoCall /\ sess = NoSess /\ engine = NoSess
  /\ out = NoOut /\ obs = NoObs

\* ------------------------------------------- macOS _verify_peercerts_impl

NoLocals ==
  [ policy |-> Null, policy_host |-> NoHost, cf_str_hostname |-> Null,
    certs |-> Null, n_in_array |-> 0, i |-> 1,
    trust |-> Null, cf_error |-> Null,
    evaluated |-> FALSE, sec_trust_eval_result |-> 0,
    cf_error_code |-> 0, cf_error_string_ref |-> Null, description_len |-> 0,
    verify_code |-> 0, verify_message |-> NoMessage, has_verify |-> FALSE ]

NoRet == [kind |-> "none", exc |-> "none", has_verify |-> FALSE,
          verify_code |-> 0, verify_message |-> NoMessage]

NoArg == [chain |-> <<>>, host |-> NoHost]

EvalIdle ==
  /\ pc = "idle" /\ arg = NoArg /\ loc = NoLocals /\ calls = <<>>
  /\ faults = 0 /\ exc = "none" /\ ret = NoRet

\* The threads that call into the module.
Threads == {1, 2}

\* The frame of a thread that has made no call.
NoFrame ==
  [ pc |-> "idle", arg |-> NoArg, loc |-> NoLocals, calls |-> <<>>,
    faults |-> 0, exc |-> "none", ret |-> NoRet,
    call |-> NoCall, sess |-> NoSess, engine |-> NoSess,
    out |-> NoOut, obs |-> NoObs ]

\* One thread runs and no other has made a call.
OneThread == cur = 1 /\ parked = [t \in Threads |-> NoFrame]

\* Entering _verify_peercerts_impl(cert_chain, server_hostname): lines
\* 292-295 set the locals.
StartEval(chain, host) ==
  /\ pc' = "policy"
  /\ arg' = [chain |-> chain, host |-> host]
  /\ loc' = NoLocals
  /\ calls' = <<>>
  /\ faults' = 0
  /\ exc' = "none"
  /\ ret' = NoRet

IsAscii(h) == h # NonAsciiHost

\* Lines 297-308: the SSL policy, with the host name when one was given.
EvalPolicy ==
  /\ pc = "policy"
  /\ \E sNull, pNull \in BOOLEAN :
       /\ faults + B(sNull) + B(pNull) <= MaxNullReturns
       /\ IF arg.host # NoHost
          THEN IF ~IsAscii(arg.host)
               THEN \* server_hostname.encode("ascii") raises; the finally
                    \* clause finds cf_str_hostname None
                    /\ ~sNull /\ ~pNull
                    /\ exc' = "UnicodeEncodeError"
                    /\ pc' = "outer_finally"
                    /\ UNCHANGED <<loc, calls, faults>>
               ELSE LET s == IF sNull THEN Null ELSE H("hostname", 0)
                        p == IF pNull THEN Null ELSE H("policy", 0)
                    IN /\ calls' = calls
                            \o << Call("CFStringCreateWithCString", <<>>, s),
                                  Call("SecPolicyCreateSSL", <<s>>, p) >>
                            \o ReleaseIf(s)
                       /\ loc' = [loc EXCEPT !.cf_str_hostname = s,
                                             !.policy = p,
                                             !.policy_host =
                                                IF s = Null \/ p = Null
                                                THEN NoHost ELSE arg.host]
                       /\ faults' = faults + B(sNull) + B(pNull)
                       /\ pc' = "certs"
                       /\ UNCHANGED exc
          ELSE LET p == IF pNull THEN Null ELSE H("policy", 0)
               IN /\ ~sNull
                  /\ calls' = calls \o << Call("SecPolicyCreateSSL", <<Null>>, p) >>
                  /\ loc' = [loc EXCEPT !.policy = p]
                  /\ faults' = faults + B(pNull)
                  /\ pc' = "certs"
                  /\ UNCHANGED exc
  /\ UNCHANGED <<arg, ret>>
  /\ UNCHANGED <<ctxvars, wrapvars, schedvars>>

\* Lines 310-318: the mutable array; MemoryError when it is NULL.
EvalArrayCreate ==
  /\ pc = "certs"
  /\ \E aNull \in BOOLEAN :
       /\ faults + B(aNull) <= MaxNullReturns
       /\ LET a == IF aNull THEN Null ELSE H("certs", 0)
          IN /\ calls' = calls \o << Call("CFArrayCreateMutable", <<>>, a) >>
             /\ loc' = [loc EXCEPT !.certs = a]
             /\ faults' = faults + B(aNull)
             /\ exc' = IF a = Null THEN "MemoryError" ELSE "none"
             /\ pc' = IF a = Null THEN "inner_finally" ELSE "loop"
  /\ UNCHANGED <<arg, ret>>
  /\ UNCHANGED <<ctxvars, wrapvars, schedvars>>

\* Lines 321-334: one iteration of the loop over cert_chain. Neither result
\* is checked: a NULL CFData gives a NULL certificate, and appending a NULL
\* certificate to a CFArray with the CFType callbacks is undefined: the
\* process may die there.
EvalLoopCert ==
  /\ pc = "loop"
  /\ loc.i <= Len(arg.chain)
  /\ \E dNull, cNull, dies \in BOOLEAN :
       /\ dNull => cNull
       /\ dies => cNull
       /\ faults + B(dNull) + B(cNull /\ ~dNull) <= MaxNullReturns
       /\ LET d == IF dNull THEN Null ELSE H("data", loc.i)
              c == IF cNull THEN Null ELSE H("cert", loc.i)
          IN /\ calls' = calls
                  \o << Call("CFDataCreate", <<>>, d),
                        Call("SecCertificateCreateWithData", <<d>>, c),
                        Call("CFArrayAppendValue", <<loc.certs, c>>, Null) >>
                  \o (IF dies THEN <<>> ELSE ReleaseIf(d) \o ReleaseIf(c))
             /\ loc' = [loc EXCEPT !.i = loc.i + 1,
                                   !.n_in_array = loc.n_in_array + B(c # Null)]
             /\ faults' = faults + B(dNull) + B(cNull /\ ~dNull)
             /\ pc' = IF dies THEN "crashed" ELSE "loop"
             /\ ret' = IF dies THEN [NoRet EXCEPT !.kind = "crashed"] ELSE ret
  /\ UNCHANGED <<arg, exc>>
  /\ UNCHANGED <<ctxvars, wrapvars, schedvars>>

\* Lines 338-342: the trust object. The status is not checked; the call
\* leaves trust NULL when it fails, as it does for an array with no
\* certificate.
EvalTrustCreate ==
  /\ pc = "loop"
  /\ loc.i > Len(arg.chain)
  /\ \E tNull \in BOOLEAN :
       /\ faults + B(tNull) <= MaxNullReturns
       /\ LET t == IF tNull \/ loc.n_in_array = 0 THEN Null ELSE H("trust", 0)
          IN /\ calls' = calls
                  \o << Call("SecTrustCreateWithCertificates",
                             <<loc.certs, loc.policy>>, t) >>
             /\ loc' = [loc EXCEPT !.trust = t]
             /\ faults' = faults + B(tNull)
  /\ pc' = "inner_finally"
  /\ UNCHANGED <<arg, exc, ret>>
  /\ UNCHANGED <<ctxvars, wrapvars, schedvars>>

\* InnerReleases leaving the array to be released by a later clause.
InnerReleasesNothing(l) == <<>>

\* Lines 347-348: what the inner finally clause releases.
InnerReleases(l) == ReleaseIf(l.certs)

\* Lines 344-348: the inner finally clause.
EvalInnerFinally ==
  /\ pc = "inner_finally"
  /\ calls' = calls \o InnerReleases(loc)
  /\ pc' = IF exc # "none" THEN "outer_finally" ELSE "anchors"
  /\ UNCHANGED <<arg, loc, faults, exc, ret>>
  /\ UNCHANGED <<ctxvars, wrapvars, schedvars>>

\* Line 351.
EvalSetAnchors ==
  /\ pc = "anchors"
  /\ calls' = calls \o << Call("SecTrustSetAnchorCertificates", <<loc.trust>>, Null) >>
  /\ pc' = "evaluate"
  /\ UNCHANGED <<arg, loc, faults, exc, ret>>
  /\ UNCHANGED <<ctxvars, wrapvars, schedvars>>

\* What the system trust store may answer for the trust object: 1 only for a
\* trust object that exists and whose policy, if it names a host, names the
\* one the leaf was issued for.
MayTrust(l, chain) ==
  /\ l.trust # Null
  /\ chain # <<>>
  /\ l.policy_host = NoHost \/ l.policy_host = DerSubject(chain[1])

\* Classify with every value but 1 read as untrusted.
ClassifyTwoWay(r) == IF r = 1 THEN "trusted" ELSE "untrusted"

\* Lines 360-367: how the return value is read.
Classify(r) ==
  IF r = 1 THEN "trusted" ELSE IF r = 0 THEN "untrusted" ELSE "unknown"

\* Lines 354-367: the evaluation. The native call writes an error object
\* when it answers false.
EvalEvaluate ==
  /\ pc = "evaluate"
  /\ \E r \in TrustResults, wrote \in BOOLEAN :
       /\ r = 1 => MayTrust(loc, arg.chain) /\ ~wrote
       /\ r = 0 => wrote
       /\ loc.trust = Null => r = 0
       /\ LET e == IF wrote THEN H("cf_error", 0) ELSE Null
          IN /\ calls' = calls
                  \o << Call("SecTrustEvaluateWithError", <<loc.trust>>, e) >>
             /\ loc' = [loc EXCEPT !.cf_error = e, !.evaluated = TRUE,
                                   !.sec_trust_eval_result = r]
       /\ exc' = IF Classify(r) = "unknown" THEN "SSLError" ELSE "none"
       /\ pc' = IF Classify(r) = "untrusted" THEN "error_info" ELSE "outer_finally"
  /\ UNCHANGED <<arg, faults, ret>>
  /\ UNCHANGED <<ctxvars, wrapvars, schedvars>>

\* _cf_string_ref_to_str for a string of n bytes: CFStringGetCStringPtr may
\* hand back the bytes or NULL; CFStringGetCString then copies them if they
\* fit the buffer with their terminator.
CfStringRefToStr(n, fastPtr) ==
  IF fastPtr THEN [ok |-> TRUE, msg |-> NativeMessage(n)]
  ELSE IF n + 1 <= BufferSize THEN [ok |-> TRUE, msg |-> NativeMessage(n)]
       ELSE [ok |-> FALSE, msg |-> NoMessage]

\* The message the verification error is given.
VerifyMessage(msg) == msg

\* Lines 370-388: the untrusted branch.
EvalErrorInfo ==
  /\ pc = "error_info"
  /\ \E code \in ErrorCodes, n \in DescLens, fastPtr, sNull \in BOOLEAN :
       /\ faults + B(sNull) <= MaxNullReturns
       /\ sNull => ~fastPtr /\ n = 0
       /\ LET ref == IF sNull THEN Null ELSE H("errstr", 0)
              str == IF sNull THEN [ok |-> FALSE, msg |-> NoMessage]
                     ELSE CfStringRefToStr(n, fastPtr)
          IN /\ calls' = calls
                  \o << Call("CFErrorGetCode", <<loc.cf_error>>, Null),
                        Call("CFErrorCopyDescription", <<loc.cf_error>>, ref),
                        Call("CFStringGetCStringPtr", <<ref>>, Null) >>
                  \o (IF fastPtr THEN <<>>
                      ELSE << Call("CFStringGetCString", <<ref>>, Null) >>)
                  \o ReleaseIf(ref)
             /\ loc' = [loc EXCEPT !.cf_error_code = code,
                                   !.cf_error_string_ref = ref,
                                   !.description_len = n,
                                   !.has_verify = str.ok,
                                   !.verify_code = IF str.ok THEN code ELSE 0,
                                   !.verify_message =
                                      IF str.ok THEN VerifyMessage(str.msg)
                                      ELSE NoMessage]
             /\ exc' = IF str.ok THEN "SSLCertVerificationError" ELSE "OSError"
       /\ faults' = faults + B(sNull)
  /\ pc' = "outer_finally"
  /\ UNCHANGED <<arg, ret>>
  /\ UNCHANGED <<ctxvars, wrapvars, schedvars>>

\* Lines 390-394: the outer finally clause, and the call's exit.
OuterReleases(l) == ReleaseIf(l.policy) \o ReleaseIf(l.trust)

EvalOuterFinally ==
  /\ pc = "outer_finally"
  /\ calls' = calls \o OuterReleases(loc)
  /\ ret' = IF exc = "none"
            THEN [NoRet EXCEPT !.kind = "returned"]
            ELSE [kind |-> "raised", exc |-> exc,
                  has_verify |-> loc.has_verify,
                  verify_code |-> loc.verify_code,
                  verify_message |-> loc.verify_message]
  /\ pc' = "exit"
  /\ UNCHANGED <<arg, loc, faults, exc>>
  /\ UNCHANGED <<ctxvars, wrapvars, schedvars>>

\* ------------------------------------------------------------ Truststore

\* The host names a caller passes to wrap_socket / wrap_bio.
WrapHosts == HostNames \cup {NoHost}

\* What the peer may have presented: no chain at all or a chain.
PeerChains == {AbsentChain} \cup { PeerChain(c) : c \in CertChains }

ResetEval ==
  /\ arg' = NoArg /\ loc' = NoLocals /\ calls' = <<>>
  /\ faults' = 0 /\ exc' = "none" /\ ret' = NoRet

\* Line 451: self._ctx.wrap_socket(sock, server_hostname=...). The engine
\* shakes hands at once on a connected socket and closes the socket when the
\* handshake fails; on an unconnected socket it shakes no hands yet.
WrapSocket ==
  /\ pc = "idle" /\ ctx.made
  /\ \E h \in WrapHosts, connected, hsOk \in BOOLEAN, chain \in PeerChains :
       /\ ~connected => hsOk
       /\ ~(connected /\ hsOk) => chain = AbsentChain
       /\ LET s == [kind |-> "socket", connected |-> connected,
                    handshake |-> connected /\ hsOk, open |-> hsOk,
                    chain |-> chain]
          IN /\ call' = [entry |-> "wrap_socket", h |-> h]
             /\ sess' = s
             /\ engine' = s
             /\ out' = IF hsOk THEN NoOut
                       ELSE [kind |-> "raised", exc |-> "SSLError", session |-> NoSess]
             /\ pc' = IF hsOk THEN "verify" ELSE "idle"
  /\ obs' = NoObs
  /\ ResetEval
  /\ UNCHANGED <<ctxvars, py313, schedvars>>

\* Lines 461-463: self._ctx.wrap_bio(incoming, outgoing, server_hostname=...).
\* The engine returns an SSLObject; the caller is to drive its handshake.
WrapBio ==
  /\ pc = "idle" /\ ctx.made
  /\ \E h \in WrapHosts :
       LET s == [kind |-> "bio", connected |-> FALSE, handshake |-> FALSE,
                 open |-> TRUE, chain |-> AbsentChain]
       IN /\ call' = [entry |-> "wrap_bio", h |-> h]
          /\ sess' = s
          /\ engine' = s
  /\ out' = NoOut
  /\ pc' = "verify"
  /\ obs' = NoObs
  /\ ResetEval
  /\ UNCHANGED <<ctxvars, py313, schedvars>>

\* Lines 452 and 464 call _verify_peercerts with the session alone, so its
\* server_hostname parameter (line 469) keeps its default whatever host name
\* h the wrap call was given.
VerifyHostParam(h) == NoHost

Extracted(e, read, certs) == [exc |-> e, read |-> read, certs |-> certs]

\* Lines 476-485: the chain of the session as DER. An SSLSocket that is not
\* connected has _sslobj None; get_unverified_chain() of the engine's own
\* object gives None for no chain; ssl.SSLObject has no get_unverified_chain
\* before Python 3.13, and from 3.13 on it gives DER bytes, which have no
\* public_bytes.
ExtractChain(s, sslObjectHasChain) ==
  IF s.kind = "socket"
  THEN IF ~s.connected THEN Extracted("AttributeError", FALSE, <<>>)
       ELSE IF ~s.chain.present THEN Extracted("TypeError", TRUE, <<>>)
       ELSE Extracted("none", TRUE,
                      [k \in 1..Len(s.chain.certs) |-> PublicBytes(s.chain.certs[k])])
  ELSE IF ~sslObjectHasChain THEN Extracted("AttributeError", FALSE, <<>>)
       ELSE IF s.chain.present /\ s.chain.certs # <<>>
            THEN Extracted("AttributeError", TRUE, <<>>)
            ELSE Extracted("none", TRUE, <<>>)

\* Lines 468-486: _verify_peercerts. On Linux/BSD _verify_peercerts_impl
\* (lines 439-442) is "pass".
VerifyPeercerts ==
  /\ pc = "verify"
  /\ LET x == ExtractChain(sess, py313)
         host == VerifyHostParam(call.h)
     IN /\ obs' = [chain_read |-> x.read, handshake_at_read |-> sess.handshake,
                   evaluated |-> x.exc = "none"]
        /\ IF x.exc # "none"
           THEN /\ exc' = x.exc
                /\ pc' = "exit"
                /\ UNCHANGED <<arg, loc, calls, faults, ret>>
           ELSE IF platform = "Darwin"
                THEN StartEval(x.certs, host)
                ELSE /\ arg' = [chain |-> x.certs, host |-> host]
                     /\ ret' = [NoRet EXCEPT !.kind = "returned"]
                     /\ pc' = "exit"
                     /\ UNCHANGED <<loc, calls, faults, exc>>
  /\ UNCHANGED <<ctxvars, py313, call, sess, engine, out, schedvars>>

\* WrapResult returning the session closed.
WrapResultClosed(s, e) ==
  IF e = "none"
  THEN [out |-> [kind |-> "returned", exc |-> "none",
                 session |-> [s EXCEPT !.open = FALSE]],
        sess |-> [s EXCEPT !.open = FALSE]]
  ELSE [out |-> [kind |-> "raised", exc |-> e, session |-> NoSess], sess |-> s]

\* Lines 452-453 and 464-465: with _verify_peercerts back, the wrap call
\* returns the engine's session, or lets the exception pass; it does nothing
\* else to the session.
WrapResult(s, e) ==
  IF e = "none"
  THEN [out |-> [kind |-> "returned", exc |-> "none", session |-> s], sess |-> s]
  ELSE [out |-> [kind |-> "raised", exc |-> e, session |-> NoSess], sess |-> s]

WrapFinish ==
  /\ pc = "exit"
  /\ out' = WrapResult(sess, exc).out
  /\ sess' = WrapResult(sess, exc).sess
  /\ pc' = "idle"
  /\ UNCHANGED <<ctxvars, evalvars_but_pc, py313, call, engine, obs, schedvars>>

\* A filesystem with the first candidate bundle and directory present.
BundleFs ==
  [EmptyFs EXCEPT ![_CA_FILES[1]] = "file", ![_CA_DIRS[1]] = "dir"]

Init ==
  /\ platform \in Platforms
  /\ fs \in {EmptyFs, BundleFs}
  /\ ctx = NoCtx
  /\ loads = <<>>
  /\ EvalIdle
  /\ py313 \in BOOLEAN
  /\ WrapIdle
  /\ OneThread

Next ==
  \/ TruststoreInit
  \/ WrapSocket
  \/ WrapBio
  \/ VerifyPeercerts
  \/ EvalPolicy
  \/ EvalArrayCreate
  \/ EvalLoopCert
  \/ EvalTrustCreate
  \/ EvalInnerFinally
  \/ EvalSetAnchors
  \/ EvalEvaluate
  \/ EvalErrorInfo
  \/ EvalOuterFinally
  \/ WrapFinish

Spec == Init /\ [][Next]_vars

\* ------------------------------------------------- the evaluator on its own

\* A caller invoking _verify_peercerts_impl with any chain and host name.
EvalCall ==
  /\ pc = "idle"
  /\ \E chain \in Chains, host \in Hosts : StartEval(chain, host)
  /\ UNCHANGED <<ctxvars, wrapvars, schedvars>>

\* The caller takes the result.
EvalReturn ==
  /\ pc = "exit"
  /\ pc' = "idle"
  /\ UNCHANGED <<arg, loc, calls, faults, exc, ret>>
  /\ UNCHANGED <<ctxvars, wrapvars, schedvars>>

InitEval ==
  /\ platform = "Darwin"
  /\ fs = EmptyFs
  /\ ctx = [made |-> TRUE, raised |-> "none",
            check_hostname |-> FALSE, verify_mode |-> "CERT_NONE"]
  /\ loads = <<>>
  /\ EvalIdle
  /\ py313 = FALSE
  /\ WrapIdle
  /\ OneThread

NextEval ==
  \/ EvalCall
  \/ EvalPolicy
  \/ EvalArrayCreate
  \/ EvalLoopCert
  \/ EvalTrustCreate
  \/ EvalInnerFinally
  \/ EvalSetAnchors
  \/ EvalEvaluate
  \/ EvalErrorInfo
  \/ EvalOuterFinally
  \/ EvalReturn

SpecEval == InitEval /\ [][NextEval]_vars

\* ------------------------------------------------------- construction alone

InitConfigure ==
  /\ platform \in Platforms
  /\ fs \in FsStates
  /\ ctx = NoCtx
  /\ loads = <<>>
  /\ EvalIdle
  /\ py313 = FALSE
  /\ WrapIdle
  /\ OneThread

NextConfigure == TruststoreInit

SpecConfigure == InitConfigure /\ [][NextConfigure]_vars

\* -------------------------------------------- two threads, one Truststore

\* The frame of the call of the running thread.
RunningFrame ==
  [ pc |-> pc, arg |-> arg, loc |-> loc, calls |-> calls,
    faults |-> faults, exc |-> exc, ret |-> ret,
    call |-> call, sess |-> sess, engine |-> engine,
    out |-> out, obs |-> obs ]

\* The frame of thread t's call.
Frame(t) == IF t = cur THEN RunningFrame ELSE parked[t]

\* Resume with the locals of _verify_peercerts_impl kept in one place for
\* all calls, as module-level names would be.
ResumeSharedLocals(own, other) == [own EXCEPT !.loc = other.loc]

\* Lines 292-295, 450-452, 461-464, 476-485: every name a call assigns is a
\* local of its own function call; neither Truststore nor the module keeps
\* any of them. A thread that resumes finds its frame as it left it,
\* whatever the thread that ran meanwhile (frame other) did.
Resume(own, other) == own

\* The interpreter takes the running thread off and resumes thread t. A
\* process that died in a native call resumes nothing.
Switch(t) ==
  /\ t # cur
  /\ pc # "crashed"
  /\ LET f == Resume(parked[t], RunningFrame)
     IN /\ pc' = f.pc /\ arg' = f.arg /\ loc' = f.loc /\ calls' = f.calls
        /\ faults' = f.faults /\ exc' = f.exc /\ ret' = f.ret
        /\ call' = f.call /\ sess' = f.sess /\ engine' = f.engine
        /\ out' = f.out /\ obs' = f.obs
  /\ parked' = [parked EXCEPT ![cur] = RunningFrame, ![t] = NoFrame]
  /\ cur' = t
  /\ UNCHANGED <<ctxvars, py313>>

\* The name the peer of thread t's connection was issued certificates for:
\* the two threads talk to different peers, so their chains are disjoint.
PeerOf(t) == IF t = 1 THEN "localhost" ELSE "example.com"

\* The session the engine made holds a chain of the thread's own peer.
OwnPeerChain(s, t) ==
  \A k \in 1..Len(s.chain.certs) : s.chain.certs[k].subject = PeerOf(t)

\* Each thread makes one wrap call, on a connection to its own peer and
\* with that peer's name as server_hostname.
ThreadWrapSocket ==
  /\ call = NoCall
  /\ WrapSocket
  /\ call'.h = PeerOf(cur)
  /\ OwnPeerChain(sess', cur)

ThreadWrapBio ==
  /\ call = NoCall
  /\ WrapBio
  /\ call'.h = PeerOf(cur)

\* No native construction call returns NULL while two threads run.
NativeCallsSucceed == faults' = 0

InitThreads ==
  /\ platform \in Platforms
  /\ fs = EmptyFs
  /\ ctx = NoCtx
  /\ loads = <<>>
  /\ EvalIdle
  /\ py313 \in BOOLEAN
  /\ WrapIdle
  /\ OneThread

NextThreads ==
  \/ TruststoreInit
  \/ ThreadWrapSocket
  \/ ThreadWrapBio
  \/ VerifyPeercerts
  \/ EvalPolicy /\ NativeCallsSucceed
  \/ EvalArrayCreate /\ NativeCallsSucceed
  \/ EvalLoopCert /\ NativeCallsSucceed
  \/ EvalTrustCreate /\ NativeCallsSucceed
  \/ EvalInnerFinally
  \/ EvalSetAnchors
  \/ EvalEvaluate
  \/ EvalErrorInfo /\ NativeCallsSucceed
  \/ EvalOuterFinally
  \/ WrapFinish
  \/ \E t \in Threads : Switch(t)

SpecThreads == InitThreads /\ [][NextThreads]_vars

\* =================================================================== claims

\* ---- the evaluator on its own (SpecEval)

EvalExited == ret.kind \in {"returned", "raised"}

\* C1: at every exit of _verify_peercerts_impl, each native handle a
\* Create/Copy-style call handed out has been passed to CFRelease exactly
\* once.
C1_EveryHandleReleasedOnce ==
  EvalExited => \A h \in Acquired(calls) : Releases(calls, h) = 1

UntrustedAnswer ==
  EvalExited /\ loc.evaluated /\ loc.sec_trust_eval_result = 0

NoNativeMessage == loc.cf_error_string_ref = Null \/ loc.description_len = 0

\* The message the specification asks for when the native error has none.
GenericMessage == [text |-> "untrusted by system trust store", len |-> 31]

\* C6: when the native evaluator answers 0, the call raises
\* SSLCertVerificationError whose verify_code and verify_message are the
\* native error's code and description, and the generic "untrusted by system
\* trust store" message when the native error has no description.
C6_UntrustedRaisesVerificationError ==
  UntrustedAnswer =>
    /\ ret.kind = "raised"
    /\ ret.exc = "SSLCertVerificationError"
    /\ ret.has_verify
    /\ ret.verify_code = loc.cf_error_code
    /\ ret.verify_message = IF NoNativeMessage THEN GenericMessage
                            ELSE NativeMessage(loc.description_len)

UnknownAnswer == loc.evaluated /\ loc.sec_trust_eval_result \notin {0, 1}

InspectsError(log) ==
  \E k \in 1..Len(log) : log[k].f \in {"CFErrorGetCode", "CFErrorCopyDescription"}

\* C10: once the native evaluation has answered with a value that is neither
\* 1 nor 0, the call never inspects the native error object, never returns
\* normally and raises SSLError, which carries no verify_code or
\* verify_message and is not the certificate-verification error.
C10_UnknownResultRaisesSSLError ==
  UnknownAnswer =>
    /\ exc = "SSLError"
    /\ ~InspectsError(calls)
    /\ ret.kind # "returned"
    /\ ret.kind = "raised" => ret.exc = "SSLError" /\ ~ret.has_verify

C10_Witness == UnknownAnswer /\ ret.kind = "raised" /\ pc = "idle"

\* The calls that construct a native object of the evaluation.
ObjectConstructionCalls ==
  {"CFStringCreateWithCString", "SecPolicyCreateSSL", "CFArrayCreateMutable",
   "CFDataCreate", "SecCertificateCreateWithData",
   "SecTrustCreateWithCertificates"}

\* The positions of the log where a construction call returned NULL.
NullConstructions(log) ==
  { k \in 1..Len(log) :
      log[k].f \in ObjectConstructionCalls /\ log[k].made = Null }

\* C12: whenever a native object-construction call of the evaluator returns
\* NULL, the allocation error is raised at that step: the only native calls
\* that follow are the releases of the finally clauses (so the NULL handle
\* is passed to no later call and the step is not made again), and the call
\* ends by raising MemoryError.
C12_NullResultRaisesAtOnce ==
  /\ \A k \in NullConstructions(calls) :
        \A j \in (k + 1)..Len(calls) : calls[j].f = "CFRelease"
  /\ (EvalExited /\ NullConstructions(calls) # {}) =>
        ret.kind = "raised" /\ ret.exc = "MemoryError"

\* Position k of the log is the call that built a trust object.
BuildsTrust(log, k) ==
  log[k].f = "SecTrustCreateWithCertificates" /\ log[k].made # Null

\* The position of the log where the trust object was built (0: none was).
TrustBuiltAt(log) ==
  IF \E k \in 1..Len(log) : BuildsTrust(log, k)
  THEN CHOOSE k \in 1..Len(log) : BuildsTrust(log, k)
  ELSE 0

\* The calls that use the trust object once it is built.
TrustUses == {"SecTrustSetAnchorCertificates", "SecTrustEvaluateWithError"}

\* Handle h is passed to CFRelease between positions a and b of the log.
ReleasedBetween(log, h, a, b) ==
  \E r \in (a + 1)..(b - 1) : log[r].f = "CFRelease" /\ log[r].args = <<h>>

\* Handle h, if it is one, is released before every use of the trust object
\* that follows position k.
ReleasedBeforeTrustUse(log, h, k) ==
  h # Null =>
    \A j \in (k + 1)..Len(log) :
      log[j].f \in TrustUses => ReleasedBetween(log, h, k, j)

\* No call after position k other than CFRelease is given handle h.
OnlyReleasedAfter(log, h, k) ==
  h # Null =>
    \A j \in (k + 1)..Len(log) :
      log[j].f # "CFRelease" =>
        \A a \in 1..Len(log[j].args) : log[j].args[a] # h

\* C13: once the trust object is built from the certificate array and the
\* policy, both are released before SecTrustSetAnchorCertificates and before
\* SecTrustEvaluateWithError are called, and neither is passed to a native
\* call other than its release afterwards.
C13_ArrayAndPolicyReleasedAtOnce ==
  LET k == TrustBuiltAt(calls)
  IN k > 0 =>
       /\ ReleasedBeforeTrustUse(calls, loc.certs, k)
       /\ ReleasedBeforeTrustUse(calls, loc.policy, k)
       /\ OnlyReleasedAfter(calls, loc.certs, k)
       /\ OnlyReleasedAfter(calls, loc.policy, k)

\* C13, amended: once the trust object is built, the certificate array is
\* released before SecTrustSetAnchorCertificates and before
\* SecTrustEvaluateWithError are called; the policy is still held then and
\* is released exactly once by the time the call exits; neither is passed to
\* a native call other than its release after the trust object is built.
C13_ArrayReleasedAtOncePolicyAtExit ==
  LET k == TrustBuiltAt(calls)
  IN k > 0 =>
       /\ ReleasedBeforeTrustUse(calls, loc.certs, k)
       /\ OnlyReleasedAfter(calls, loc.certs, k)
       /\ OnlyReleasedAfter(calls, loc.policy, k)
       /\ loc.policy # Null =>
             /\ \A j \in (k + 1)..Len(calls) :
                   calls[j].f \in TrustUses =>
                     Releases(SubSeq(calls, 1, j), loc.policy) = 0
             /\ EvalExited => Releases(calls, loc.policy) = 1

\* The evaluation ran on a trust object built with a policy, and the call
\* has exited.
C13_Witness ==
  /\ EvalExited /\ loc.evaluated
  /\ loc.policy # Null /\ loc.trust # Null
  /\ Len(arg.chain) = MaxChain

\* ---- construction (SpecConfigure)

Constructed == ctx.made \/ ctx.raised # "none"

FileIndexes == { k \in 1..Len(_CA_FILES) : IsFile(fs, _CA_FILES[k]) }
DirIndexes == { k \in 1..Len(_CA_DIRS) : IsDir(fs, _CA_DIRS[k]) }
Least(S) == CHOOSE k \in S : \A j \in S : k <= j

\* C8: the Linux/BSD _configure_context makes at most one
\* load_verify_locations call: the first existing file of _CA_FILES and no
\* directory, or else the first existing directory of _CA_DIRS.
C8_AtMostOneLoad ==
  (platform = "Linux" /\ Constructed) =>
    /\ Len(loads) <= 1
    /\ FileIndexes # {} =>
         loads = << [kind |-> "cafile", path |-> _CA_FILES[Least(FileIndexes)]] >>
    /\ (FileIndexes = {} /\ DirIndexes # {}) =>
         loads = << [kind |-> "capath", path |-> _CA_DIRS[Least(DirIndexes)]] >>

\* C9: on Linux/BSD, when no candidate file is a file and no candidate
\* directory is a directory, Truststore() completes without an error, makes
\* no load_verify_locations call and leaves the context as
\* ssl.create_default_context() made it.
C9_NoBundleStillConstructs ==
  (platform = "Linux" /\ Constructed /\ FileIndexes = {} /\ DirIndexes = {}) =>
    /\ ctx.made
    /\ ctx.raised = "none"
    /\ loads = <<>>
    /\ ctx.check_hostname = TRUE
    /\ ctx.verify_mode = "CERT_REQUIRED"

C9_Witness ==
  platform = "Linux" /\ ctx.made /\ FileIndexes = {} /\ DirIndexes = {}

\* ---- the wrap calls (Spec)

WrapEnded == out.kind # "none"

\* The leaf of the chain the engine's session holds was issued for name n.
LeafIssuedFor(n) ==
  /\ engine.chain.present
  /\ engine.chain.certs # <<>>
  /\ engine.chain.certs[1].subject = n

\* C2: a wrap call given server_hostname h hands that same h to the platform
\* evaluator, so that on macOS no session is returned for a chain issued for
\* another name than h.
C2_EvaluatorGetsHostname ==
  /\ (obs.evaluated /\ call.h # NoHost) => arg.host = call.h
  /\ (platform = "Darwin" /\ out.kind = "returned" /\ call.h # NoHost) =>
       LeafIssuedFor(call.h)

\* C3: _verify_peercerts is entered, the peer chain read and a verdict
\* computed only for a session whose handshake has completed.
C3_VerifyAfterHandshake ==
  /\ pc = "verify" => sess.handshake
  /\ obs.chain_read => obs.handshake_at_read
  /\ obs.evaluated => sess.handshake

\* C4: when the evaluator raises inside a wrap call, the session that call
\* created is closed by the time the error reaches the caller.
C4_FailedVerificationClosesSession ==
  (out.kind = "raised" /\ obs.evaluated /\ ret.kind = "raised") => ~sess.open

\* The platform evaluator was called and judged the chain trusted: the native
\* answer 1 on macOS, the evaluator that accepts every chain on Linux/BSD.
JudgedTrusted ==
  /\ obs.evaluated
  /\ platform = "Darwin" => loc.evaluated /\ loc.sec_trust_eval_result = 1

\* C5: when the handshake succeeded and the platform evaluator judges the
\* chain trusted, the wrap call raises nothing and returns the very session
\* the engine's wrap call produced, open and unchanged.
C5_TrustedReturnsEngineSession ==
  (WrapEnded /\ engine.handshake /\ JudgedTrusted) =>
    /\ out.kind = "returned"
    /\ out.exc = "none"
    /\ out.session = engine
    /\ sess = engine
    /\ sess.open

C5_Witness ==
  /\ platform = "Darwin" /\ call.entry = "wrap_socket"
  /\ WrapEnded /\ engine.handshake /\ JudgedTrusted
  /\ Len(engine.chain.certs) = MaxChain

EmptyOrAbsentChain == ~engine.chain.present \/ engine.chain.certs = <<>>

\* C7: when the completed handshake exposes an empty or absent peer chain,
\* _verify_peercerts does not complete normally and the wrap call returns no
\* session.
C7_EmptyChainNeverTrusted ==
  (WrapEnded /\ engine.handshake /\ EmptyOrAbsentChain) =>
    /\ exc # "none"
    /\ out.kind = "raised"

\* ---- two threads (SpecThreads)

\* The positions of log that call native function fn.
CallsOf(log, fn) == { k \in 1..Len(log) : log[k].f = fn }

\* Every handle the log passes to a native call, CFRelease included, and
\* every handle a call of the log made, is an object made by thread t's call.
OwnHandlesOnly(log, t) ==
  \A k \in 1..Len(log) :
    /\ \A a \in 1..Len(log[k].args) :
          log[k].args[a] # Null => log[k].args[a][3] = t
    /\ log[k].made # Null => log[k].made[3] = t

\* The chain and host name the evaluator was given in frame f are those of
\* thread t's own session and wrap call, and the certificates built are the
\* chain's, one each and in order.
OwnInputsOnly(f, t) ==
  f.obs.evaluated =>
    /\ f.arg.chain = ExtractChain(f.sess, py313).certs
    /\ f.arg.host = VerifyHostParam(f.call.h)
    /\ \A k \in 1..Len(f.arg.chain) : DerSubject(f.arg.chain[k]) = PeerOf(t)
    /\ { f.calls[k].made : k \in CallsOf(f.calls, "CFDataCreate") }
          \subseteq { <<"data", i, t>> : i \in 1..Len(f.arg.chain) }
    /\ CallsOf(f.calls, "SecTrustCreateWithCertificates") # {} =>
          Cardinality(CallsOf(f.calls, "CFDataCreate")) = Len(f.arg.chain)

\* What frame f's wrap call yielded is what its own call yields alone: the
\* engine's error when its handshake failed, else the wrap result of its own
\* session and exception; on macOS a session only
\* for its own non-empty chain, after its own trust object was evaluated
\* with answer 1; and a verification error only with the code and message
\* read from its own error object.
OwnVerdictOnly(f, t) ==
  f.out.kind # "none" =>
    /\ f.out = IF f.engine.open THEN WrapResult(f.sess, f.exc).out
               ELSE [kind |-> "raised", exc |-> "SSLError", session |-> NoSess]
    /\ (platform = "Darwin" /\ f.out.kind = "returned") =>
         /\ f.arg.chain # <<>>
         /\ f.loc.sec_trust_eval_result = 1
         /\ \E k \in CallsOf(f.calls, "SecTrustEvaluateWithError") :
              f.calls[k].args = << <<"trust", 0, t>> >>
    /\ (platform = "Darwin" /\ f.out.exc = "SSLCertVerificationError") =>
         /\ f.ret.verify_code = f.loc.cf_error_code
         /\ f.ret.verify_message = NativeMessage(f.loc.description_len)
         /\ \E k \in CallsOf(f.calls, "CFErrorGetCode") :
              f.calls[k].args = << <<"cf_error", 0, t>> >>

\* C11: however the wrap calls of two threads on one Truststore interleave,
\* each call evaluates its own chain with its own host name, passes to
\* native calls and releases only handles its own call made, and yields the
\* verdict or error its own call yields alone.
C11_CallsDoNotInterfere ==
  \A t \in Threads :
    /\ OwnHandlesOnly(Frame(t).calls, t)
    /\ OwnInputsOnly(Frame(t), t)
    /\ OwnVerdictOnly(Frame(t), t)

\* Both calls have ended on macOS, each after its evaluation was interleaved
\* with the other's: one returned its session, the other raised the
\* verification error.
C11_Witness ==
  /\ platform = "Darwin"
  /\ \A t \in Threads : Frame(t).out.kind # "none" /\ Frame(t).loc.evaluated
  /\ Frame(1).out.kind = "returned"
  /\ Len(Frame(1).arg.chain) = MaxChain
  /\ Frame(2).out.exc = "SSLCertVerificationError"

====
